---- MODULE Spec2Model ----
(***************************************************************************)
(* Model of the najd-gateway chat / feedback pipeline (src/main.py).       *)
(*                                                                         *)
(* The state is the MongoDB collection `conversations`, the server clock   *)
(* and the requests in flight.  Every request handler is split at its      *)
(* `await` points, which are the only places where the asyncio event loop  *)
(* can interleave another request.                                         *)
(***************************************************************************)
EXTENDS Integers, Sequences, FiniteSets, TLC

\* ------------------------------------------------------------------ bounds
\* number of requests (chat or feedback) received in one behaviour
MaxCalls == 2
\* last reading of the server clock; request timestamps range over the same
MaxClock == 1

\* messageId values the clients use
MsgIds == {"m1", "m2"}

\* ------------------------------------------------------------- data model
\* Python None
None == "<None>"
\* a field a document does not have
Absent == "<absent>"

\* a datetime object holding instant t
DateTime(t) == [type |-> "datetime", t |-> t]
\* datetime.isoformat(): the same instant, as a str
isoformat(d) == [type |-> "str", t |-> d.t]
NoTimestamp == [type |-> "absent", t |-> 0]

\* values of the provider's "output" field
Outputs == {"X is Y"}
Feedbacks == {"helpful", "unhelpful"}

FALLBACK_HTTP == "I'm sorry, I'm having trouble accessing the necessary information right now. Please try again later."
FALLBACK_TECH == "I apologize, but I'm experiencing technical difficulties. Please try again later."

HTTP_200 == 200
HTTP_500 == 500

\* The questionTimestamp the client puts on message m: the first message is
\* stamped with the start of the clock, every other one with its last
\* reading (the client's clock is not the server's).
QuestionTime(m) == IF m = "m1" THEN 0 ELSE MaxClock

\* request.dict() of a validated ChatRequest
ChatRequest ==
  { [question |-> "What is X?", userId |-> "u1", messageId |-> m,
     userName |-> "User One", conversationId |-> "c1",
     questionTimestamp |-> DateTime(QuestionTime(m))] : m \in MsgIds }

\* request.dict() of a validated FeedbackRequest; the answer is whatever the
\* client sends back, the endpoint does not compare it with the log
FeedbackRequest ==
  { [question |-> "What is X?", answer |-> "the answer shown to the user",
     userId |-> "u1", messageId |-> m, conversationId |-> "c1", feedback |-> f,
     questionTimestamp |-> DateTime(QuestionTime(m)),
     answerTimestamp |-> DateTime(QuestionTime(m))] :
       m \in MsgIds, f \in Feedbacks }

\* ----------------------------------------------------- inference provider
\* What the POST to AZURE_ENDPOINT can come back with: "transport" is any
\* httpx.TransportError (timeout, connection refused or reset), "status" a
\* 4xx/5xx reply, "bad_json" a 2xx reply whose body is not JSON,
\* "json_other" a JSON body that is not an object.  `output` is the value of
\* the "output" key of a JSON object body, Absent when it has no such key.
ProviderOutcomes ==
  { [kind |-> k, output |-> Absent] :
      k \in {"transport", "status", "bad_json", "json_other"} }
  \cup { [kind |-> "json_object", output |-> o] : o \in Outputs \cup {Absent} }

\* query_azure_endpoint: the exception it raises, or "return"
query_azure_endpoint(resp) ==
  CASE resp.kind = "transport" -> "httpx.TransportError"
    [] resp.kind = "status"    -> "httpx.HTTPStatusError"
    [] resp.kind = "bad_json"  -> "json.JSONDecodeError"
    [] OTHER                   -> "return"

\* llm_response.get("output", ""): AttributeError unless the body is a dict
llm_get_output(resp) ==
  IF resp.kind # "json_object" THEN [raised |-> "AttributeError", value |-> ""]
  ELSE [raised |-> "none",
        value  |-> IF resp.output = Absent THEN "" ELSE resp.output]

\* mutant: the first except clause catches httpx.RequestError only, which
\* leaves out the HTTPStatusError of raise_for_status
IsHTTPError_RequestErrorOnly(exc) ==
  exc \in {"httpx.TransportError"}

\* isinstance(e, httpx.HTTPError)
IsHTTPError(exc) ==
  exc \in {"httpx.TransportError", "httpx.HTTPStatusError"}

\* isinstance(e, Exception)
IsException(exc) ==
  exc \in {"httpx.TransportError", "httpx.HTTPStatusError",
           "json.JSONDecodeError", "AttributeError", "pymongo.errors.PyMongoError"}

\* mutant: the generic `except Exception` clause is missing
ExceptClauses_HTTPErrorOnly(exc) ==
  IF IsHTTPError(exc) THEN [caught |-> TRUE, chunk |-> FALLBACK_HTTP]
  ELSE [caught |-> FALSE, chunk |-> ""]

\* the except clauses of process_message: the chunk yielded for exception exc
ExceptClauses(exc) ==
  IF IsHTTPError(exc) THEN [caught |-> TRUE, chunk |-> FALLBACK_HTTP]
  ELSE IF IsException(exc) THEN [caught |-> TRUE, chunk |-> FALLBACK_TECH]
  ELSE [caught |-> FALSE, chunk |-> ""]

\* ------------------------------------------------------------- documents
\* mutant: the log entry is written with an empty feedback text, not None
ChatDoc_EmptyFeedback(data, full_response, t) ==
  [userId |-> data.userId, userName |-> data.userName,
   conversationId |-> data.conversationId, messageId |-> data.messageId,
   question |-> data.question, answer |-> full_response,
   questionTimestamp |-> data.questionTimestamp,
   answerTimestamp |-> isoformat(DateTime(t)),
   feedback |-> "", logTimestamp |-> DateTime(t)]

\* mutant: answerTimestamp is a time taken once, when the service started
ChatDoc_StaleAnswerTime(data, full_response, t) ==
  [userId |-> data.userId, userName |-> data.userName,
   conversationId |-> data.conversationId, messageId |-> data.messageId,
   question |-> data.question, answer |-> full_response,
   questionTimestamp |-> data.questionTimestamp,
   answerTimestamp |-> isoformat(DateTime(0)),
   feedback |-> None, logTimestamp |-> DateTime(t)]

\* log_entry of process_message, built at server time t
ChatDoc(data, full_response, t) ==
  [userId |-> data.userId, userName |-> data.userName,
   conversationId |-> data.conversationId, messageId |-> data.messageId,
   question |-> data.question, answer |-> full_response,
   questionTimestamp |-> data.questionTimestamp,
   answerTimestamp |-> isoformat(DateTime(t)),
   feedback |-> None, logTimestamp |-> DateTime(t)]

\* mutant: the fallback insert writes the record without the feedback text
FeedbackDoc_NoFeedback(data) ==
  [userId |-> data.userId, userName |-> Absent,
   conversationId |-> data.conversationId, messageId |-> data.messageId,
   question |-> data.question, answer |-> data.answer,
   questionTimestamp |-> data.questionTimestamp,
   answerTimestamp |-> data.answerTimestamp,
   feedback |-> None, logTimestamp |-> NoTimestamp]

\* the document insert_one(data) stores for a feedback payload
FeedbackDoc(data) ==
  [userId |-> data.userId, userName |-> Absent,
   conversationId |-> data.conversationId, messageId |-> data.messageId,
   question |-> data.question, answer |-> data.answer,
   questionTimestamp |-> data.questionTimestamp,
   answerTimestamp |-> data.answerTimestamp,
   feedback |-> data.feedback, logTimestamp |-> NoTimestamp]

\* mutant: the update is {"$set": data}, the whole payload
UpdateSet_WholePayload(doc, data) ==
  [doc EXCEPT !.feedback = data.feedback,
              !.questionTimestamp = data.questionTimestamp,
              !.answerTimestamp = data.answerTimestamp,
              !.question = data.question, !.answer = data.answer,
              !.userId = data.userId, !.conversationId = data.conversationId]

\* mutant: the matched document is replaced by the payload (replace_one)
UpdateSet_Replace(doc, data) == FeedbackDoc(data)

\* the $set of save_feedback applied to one document
UpdateSet(doc, data) ==
  [doc EXCEPT !.feedback = data.feedback,
              !.questionTimestamp = data.questionTimestamp,
              !.answerTimestamp = data.answerTimestamp]

\* indexes of the documents matching {"messageId": m}
Matching(coll, m) == { i \in 1..Len(coll) : coll[i].messageId = m }

\* mutant: the test is inverted, the insert follows a successful update
NeedsInsert_Inverted(modified_count) == modified_count # 0

\* result.modified_count == 0
NeedsInsert(modified_count) == modified_count = 0

\* feedback_endpoint: the status returned for the outcome of save_feedback
FeedbackStatus(outcome) == IF outcome = "raised" THEN HTTP_500 ELSE HTTP_200

\* ------------------------------------------------------------------ state
VARIABLES store, now, calls

vars == <<store, now, calls>>

\* A collection left by an earlier run of the service: empty, or holding
\* the log of one answered chat for message 1.
InitialStores ==
  { <<>>,
    << ChatDoc(CHOOSE r \in ChatRequest : r.messageId = "m1", "X is Y", 0) >> }

Active(c) == calls[c].pc # "done"
NoneActive == \A c \in 1..Len(calls) : ~Active(c)

\* mutant: process_message writes the log entry before it queries the provider
NewCall_LogFirst(op, data) ==
  [op |-> op, pc |-> IF op = "chat" THEN "query" ELSE "update",
   data |-> data, response |-> [kind |-> "pending", output |-> Absent],
   full_response |-> "", emitted |-> <<>>,
   issued |-> IF op = "chat" THEN <<ChatDoc(data, "", now)>> ELSE <<>>,
   update |-> "none", insert |-> "none",
   matched_count |-> 0, modified_count |-> 0,
   outcome |-> "pending", alone |-> NoneActive,
   pre |-> store, queries |-> IF op = "chat" THEN 1 ELSE 0]

\* The record of a request on arrival.  `pre` is the collection it found,
\* `issued` the documents it has passed to insert_one, `emitted` the chunks
\* it has yielded, `queries` the POSTs it has sent to the provider (chat
\* sends one as it starts).
NewCall(op, data) ==
  [op |-> op, pc |-> IF op = "chat" THEN "query" ELSE "update",
   data |-> data, response |-> [kind |-> "pending", output |-> Absent],
   full_response |-> "", emitted |-> <<>>, issued |-> <<>>,
   update |-> "none", insert |-> "none",
   matched_count |-> 0, modified_count |-> 0,
   outcome |-> "pending", alone |-> NoneActive,
   pre |-> store, queries |-> IF op = "chat" THEN 1 ELSE 0]

\* what is kept of a finished request once two later ones have arrived
Forgotten ==
  [op |-> "forgotten", pc |-> "done", data |-> [messageId |-> Absent],
   response |-> [kind |-> "pending", output |-> Absent],
   full_response |-> "", emitted |-> <<>>, issued |-> <<>>,
   update |-> "none", insert |-> "none",
   matched_count |-> 0, modified_count |-> 0,
   outcome |-> "forgotten", alone |-> FALSE, pre |-> <<>>, queries |-> 0]

\* a request arrives while the calls in `cs` are in flight: they overlap it.
\* Of the finished ones only the latest arrival is remembered.
Overlap(cs) == [c \in 1..Len(cs) |->
                  IF cs[c].pc # "done" THEN [cs[c] EXCEPT !.alone = FALSE]
                  ELSE IF c < Len(cs) THEN Forgotten ELSE cs[c]]

Init ==
  /\ store \in InitialStores
  /\ now = 0
  /\ calls = <<>>

\* ---------------------------------------------------------- POST /chat
\* chat_endpoint: wraps the generator in a StreamingResponse, which starts
\* iterating it; the generator runs up to the await of the provider call.
ChatStart(req) ==
  /\ Len(calls) < MaxCalls
  /\ calls' = Append(Overlap(calls), NewCall("chat", req))
  /\ UNCHANGED <<store, now>>

\* an exception reaches the except clauses of process_message
Handle(call, exc) ==
  LET h == ExceptClauses(exc) IN
  IF h.caught
  THEN [call EXCEPT !.pc = "done", !.emitted = Append(@, h.chunk),
                    !.outcome = "ok"]
  ELSE [call EXCEPT !.pc = "done", !.outcome = "raised"]

\* mutant: a transport failure is retried once before giving up
ChatQueryFails_Retry(c, resp) ==
  /\ calls[c].op = "chat" /\ calls[c].pc = "query"
  /\ LET q == query_azure_endpoint(resp)
         g == llm_get_output(resp)
         call == [calls[c] EXCEPT !.response = resp]
     IN /\ q # "return" \/ g.raised # "none"
        /\ calls' = [calls EXCEPT ![c] =
             IF q = "httpx.TransportError" /\ calls[c].queries < 2
             THEN [@ EXCEPT !.queries = @ + 1]
             ELSE Handle(call, IF q # "return" THEN q ELSE g.raised)]
  /\ UNCHANGED <<store, now>>

\* the provider call fails, or its reply is not a JSON object: an except
\* clause of process_message yields the fallback text
ChatQueryFails(c, resp) ==
  /\ calls[c].op = "chat" /\ calls[c].pc = "query"
  /\ LET q == query_azure_endpoint(resp)
         g == llm_get_output(resp)
         call == [calls[c] EXCEPT !.response = resp]
     IN /\ q # "return" \/ g.raised # "none"
        /\ calls' = [calls EXCEPT ![c] =
             Handle(call, IF q # "return" THEN q ELSE g.raised)]
  /\ UNCHANGED <<store, now>>

\* the provider call returns a JSON object: process_message extracts the
\* output, builds the log entry at server time t (the only place where the
\* clock is read, so it moves here) and issues insert_one
ChatQueryReturns(c, resp, t) ==
  /\ calls[c].op = "chat" /\ calls[c].pc = "query"
  /\ query_azure_endpoint(resp) = "return"
  /\ llm_get_output(resp).raised = "none"
  /\ t >= now /\ now' = t
  /\ LET full_response == llm_get_output(resp).value
     IN calls' = [calls EXCEPT ![c] =
          [@ EXCEPT !.response = resp, !.full_response = full_response,
                    !.issued = Append(@, ChatDoc(calls[c].data, full_response, t)),
                    !.pc = "insert"]]
  /\ UNCHANGED store

\* mutant: the log write is replace_one(..., upsert=True) keyed by messageId
ChatInsert_Upsert(c, ok) ==
  /\ calls[c].op = "chat" /\ calls[c].pc = "insert"
  /\ IF ok
     THEN /\ LET ms == Matching(store, calls[c].data.messageId) IN
             store' = IF ms = {} THEN Append(store, calls[c].issued[1])
                      ELSE LET i == CHOOSE j \in ms : \A k \in ms : j <= k
                           IN [store EXCEPT ![i] = calls[c].issued[1]]
          /\ calls' = [calls EXCEPT ![c] =
               [@ EXCEPT !.insert = "ok", !.pc = "done",
                         !.emitted = Append(@, calls[c].full_response),
                         !.outcome = "ok"]]
     ELSE /\ store' = store
          /\ calls' = [calls EXCEPT ![c] =
               Handle([@ EXCEPT !.insert = "failed"], "pymongo.errors.PyMongoError")]
  /\ UNCHANGED now

\* insert_one of the log entry completes; on success the answer is yielded
ChatInsert(c, ok) ==
  /\ calls[c].op = "chat" /\ calls[c].pc = "insert"
  /\ IF ok
     THEN /\ store' = Append(store, calls[c].issued[1])
          /\ calls' = [calls EXCEPT ![c] =
               [@ EXCEPT !.insert = "ok", !.pc = "done",
                         !.emitted = Append(@, calls[c].full_response),
                         !.outcome = "ok"]]
     ELSE /\ store' = store
          /\ calls' = [calls EXCEPT ![c] =
               Handle([@ EXCEPT !.insert = "failed"], "pymongo.errors.PyMongoError")]
  /\ UNCHANGED now

\* ------------------------------------------------------- POST /feedback
\* feedback_endpoint calls save_feedback, which awaits update_one
FbStart(data) ==
  /\ Len(calls) < MaxCalls
  /\ calls' = Append(Overlap(calls), NewCall("feedback", data))
  /\ UNCHANGED <<store, now>>

\* save_feedback after update_one returned modified_count: either it is
\* finished or it issues insert_one(data)
AfterUpdate(call, matched_count, modified_count) ==
  LET r == [call EXCEPT !.update = "ok", !.matched_count = matched_count,
                        !.modified_count = modified_count]
  IN IF NeedsInsert(modified_count)
     THEN [r EXCEPT !.issued = Append(@, FeedbackDoc(call.data)), !.pc = "insert"]
     ELSE [r EXCEPT !.pc = "done", !.outcome = "ok"]

\* update_one raises: nothing in save_feedback catches it
FbUpdateFails(c) ==
  /\ calls[c].op = "feedback" /\ calls[c].pc = "update"
  /\ calls' = [calls EXCEPT ![c] =
       [@ EXCEPT !.update = "failed", !.pc = "done", !.outcome = "raised"]]
  /\ UNCHANGED <<store, now>>

\* update_one finds no document with the messageId
FbUpdateNoMatch(c) ==
  /\ calls[c].op = "feedback" /\ calls[c].pc = "update"
  /\ Matching(store, calls[c].data.messageId) = {}
  /\ calls' = [calls EXCEPT ![c] = AfterUpdate(@, 0, 0)]
  /\ UNCHANGED <<store, now>>

\* mutant: update_many, every matching document gets the $set
FbUpdateMatch_UpdateMany(c, i) ==
  /\ calls[c].op = "feedback" /\ calls[c].pc = "update"
  /\ i \in Matching(store, calls[c].data.messageId)
  /\ LET ms == Matching(store, calls[c].data.messageId)
         new == [j \in 1..Len(store) |->
                   IF j \in ms THEN UpdateSet(store[j], calls[c].data) ELSE store[j]]
         modified_count == Cardinality({j \in ms : new[j] # store[j]})
     IN /\ store' = new
        /\ calls' = [calls EXCEPT ![c] =
             AfterUpdate(@, Cardinality(ms), modified_count)]
  /\ UNCHANGED now

\* update_one applies the $set to one matching document (which one is the
\* server's choice); modified_count counts it only if a field changed
FbUpdateMatch(c, i) ==
  /\ calls[c].op = "feedback" /\ calls[c].pc = "update"
  /\ i \in Matching(store, calls[c].data.messageId)
  /\ LET doc == UpdateSet(store[i], calls[c].data)
         modified_count == IF doc = store[i] THEN 0 ELSE 1
     IN /\ store' = [store EXCEPT ![i] = doc]
        /\ calls' = [calls EXCEPT ![c] =
             AfterUpdate(@, 1, modified_count)]
  /\ UNCHANGED now

\* mutant: the fallback write is an upsert keyed by messageId: a record that
\* has appeared since the update is updated, not duplicated
FbInsert_Upsert(c, ok) ==
  /\ calls[c].op = "feedback" /\ calls[c].pc = "insert"
  /\ LET ms == Matching(store, calls[c].data.messageId) IN
     store' = IF ~ok THEN store
              ELSE IF ms = {} THEN Append(store, calls[c].issued[1])
              ELSE LET i == CHOOSE j \in ms : \A k \in ms : j <= k
                   IN [store EXCEPT ![i] = UpdateSet(store[i], calls[c].data)]
  /\ calls' = [calls EXCEPT ![c] =
       [@ EXCEPT !.insert = IF ok THEN "ok" ELSE "failed", !.pc = "done",
                 !.outcome = IF ok THEN "ok" ELSE "raised"]]
  /\ UNCHANGED now

\* mutant: the fallback write clears the messageId first (delete_many, then
\* insert_one)
FbInsert_DeleteThenInsert(c, ok) ==
  /\ calls[c].op = "feedback" /\ calls[c].pc = "insert"
  /\ LET Keep(doc) == doc.messageId # calls[c].data.messageId IN
     store' = IF ok THEN Append(SelectSeq(store, Keep), calls[c].issued[1]) ELSE store
  /\ calls' = [calls EXCEPT ![c] =
       [@ EXCEPT !.insert = IF ok THEN "ok" ELSE "failed", !.pc = "done",
                 !.outcome = IF ok THEN "ok" ELSE "raised"]]
  /\ UNCHANGED now

\* insert_one(data) of save_feedback completes or raises
FbInsert(c, ok) ==
  /\ calls[c].op = "feedback" /\ calls[c].pc = "insert"
  /\ store' = IF ok THEN Append(store, calls[c].issued[1]) ELSE store
  /\ calls' = [calls EXCEPT ![c] =
       [@ EXCEPT !.insert = IF ok THEN "ok" ELSE "failed", !.pc = "done",
                 !.outcome = IF ok THEN "ok" ELSE "raised"]]
  /\ UNCHANGED now

Next ==
  \/ \E req \in ChatRequest : ChatStart(req)
  \/ \E c \in 1..Len(calls), resp \in ProviderOutcomes : ChatQueryFails(c, resp)
  \/ \E c \in 1..Len(calls), resp \in ProviderOutcomes, t \in 0..MaxClock :
       ChatQueryReturns(c, resp, t)
  \/ \E c \in 1..Len(calls), ok \in BOOLEAN : ChatInsert(c, ok)
  \/ \E data \in FeedbackRequest : FbStart(data)
  \/ \E c \in 1..Len(calls) : FbUpdateFails(c)
  \/ \E c \in 1..Len(calls) : FbUpdateNoMatch(c)
  \/ \E c \in 1..Len(calls), i \in 1..Len(store) : FbUpdateMatch(c, i)
  \/ \E c \in 1..Len(calls), ok \in BOOLEAN : FbInsert(c, ok)

Spec == Init /\ [][Next]_vars

\* ================================================================ claims
CallIds == 1..Len(calls)
Count(coll, m) == Cardinality(Matching(coll, m))
ChatDone(c) == calls[c].op = "chat" /\ calls[c].pc = "done"
FbDone(c) == calls[c].op = "feedback" /\ calls[c].pc = "done"
\* the provider call returned a JSON object / did not
ProviderSucceeded(c) == calls[c].response.kind = "json_object"
ProviderFailed(c) ==
  calls[c].response.kind \in {"transport", "status", "bad_json", "json_other"}
\* call c is the latest arrival and has finished: `store` is what it left
Latest(c) == c = Len(calls) /\ calls[c].pc = "done"

\* C1: whatever the provider call and the store insert come back with, a
\* finished process_message has yielded at least one chunk and has not
\* raised to its caller.
C1_AlwaysYieldsNeverRaises ==
  \A c \in CallIds :
    calls[c].op = "chat" =>
      /\ calls[c].outcome # "raised"
      /\ calls[c].pc = "done" => Len(calls[c].emitted) >= 1 /\ calls[c].outcome = "ok"

\* C1 witness: two chats have finished, one whose provider call failed
\* outside httpx and one whose insert_one raised.
C1_Witness ==
  \E c, d \in CallIds :
    /\ ChatDone(c) /\ calls[c].response.kind = "bad_json"
    /\ ChatDone(d) /\ calls[d].insert = "failed"
    /\ Len(calls[c].emitted) >= 1 /\ Len(calls[d].emitted) >= 1

\* C2 (as claimed): whenever the provider call succeeds with an output
\* field, the text emitted is that output, whether or not the insert
\* succeeds.
C2_EmittedIsProviderOutput ==
  \A c \in CallIds :
    ChatDone(c) /\ ProviderSucceeded(c) /\ calls[c].response.output # Absent =>
      calls[c].emitted = <<calls[c].response.output>>

\* C3: when the provider call fails the text emitted is the "trouble
\* accessing" string exactly for transport and HTTP-status failures and the
\* "technical difficulties" string for every other failure.
C3_FallbackByCategory ==
  \A c \in CallIds :
    ChatDone(c) /\ ProviderFailed(c) =>
      calls[c].emitted =
        << IF calls[c].response.kind \in {"transport", "status"}
           THEN "I'm sorry, I'm having trouble accessing the necessary information right now. Please try again later."
           ELSE "I apologize, but I'm experiencing technical difficulties. Please try again later." >>

\* C3 witness: a chat answered a non-2xx status with the first fallback and
\* another answered an unparsable body with the second.
C3_Witness ==
  \E c, d \in CallIds :
    /\ ChatDone(c) /\ calls[c].response.kind = "status"
    /\ calls[c].emitted = <<FALLBACK_HTTP>>
    /\ ChatDone(d) /\ calls[d].response.kind \in {"bad_json", "json_other"}
    /\ calls[d].emitted = <<FALLBACK_TECH>>

\* C4: a chat whose provider call succeeded has issued exactly one
\* insert_one, of a log entry with the request's messageId, the provider's
\* output as answer and feedback None; when the insert succeeds that answer
\* is the text emitted and the collection has grown by that one entry.
C4_OneInsertPerAnsweredChat ==
  \A c \in CallIds :
    ChatDone(c) /\ ProviderSucceeded(c) =>
      /\ Len(calls[c].issued) = 1
      /\ calls[c].issued[1].messageId = calls[c].data.messageId
      /\ calls[c].issued[1].answer =
           (IF calls[c].response.output = Absent THEN "" ELSE calls[c].response.output)
      /\ calls[c].issued[1].feedback = None
      /\ calls[c].insert = "ok" =>
           /\ calls[c].emitted = <<calls[c].issued[1].answer>>
           /\ calls[c].alone /\ Latest(c) => store = Append(calls[c].pre, calls[c].issued[1])

\* C4 witness: a chat with a provider output has finished and its log entry
\* is in the collection.
C4_Witness ==
  \E c \in CallIds :
    /\ ChatDone(c) /\ calls[c].response.output \in Outputs
    /\ calls[c].insert = "ok" /\ calls[c].alone /\ Latest(c)
    /\ Len(store) = Len(calls[c].pre) + 1

\* C5 (as claimed): when the provider call fails the collection still
\* receives one insert, whose answer is the fallback text emitted and whose
\* feedback is None.
C5_FallbackIsLogged ==
  \A c \in CallIds :
    ChatDone(c) /\ ProviderFailed(c) =>
      /\ Len(calls[c].issued) = 1
      /\ calls[c].issued[1].answer = calls[c].emitted[1]
      /\ calls[c].issued[1].feedback = None

\* C6 (as claimed): save_feedback for a messageId that already has a record
\* issues no insert and leaves the number of records with that messageId
\* as it was.
C6_ExistingRecordNotDuplicated ==
  \A c \in CallIds :
    /\ FbDone(c) /\ calls[c].outcome = "ok" /\ calls[c].alone /\ Latest(c)
    /\ Count(calls[c].pre, calls[c].data.messageId) >= 1
    => /\ calls[c].issued = <<>>
       /\ Count(store, calls[c].data.messageId) =
            Count(calls[c].pre, calls[c].data.messageId)

\* C7 (as claimed): two save_feedback calls in sequence with the same
\* payload, for a messageId that had a record, leave the collection after
\* the second as it was after the first.
C7_FeedbackIdempotent ==
  \A c \in CallIds :
    /\ c + 1 \in CallIds /\ Latest(c + 1)
    /\ FbDone(c) /\ FbDone(c + 1)
    /\ calls[c].data = calls[c + 1].data
    /\ calls[c].alone /\ calls[c + 1].alone
    /\ calls[c].outcome = "ok" /\ calls[c + 1].outcome = "ok"
    /\ Count(calls[c].pre, calls[c].data.messageId) >= 1
    => store = calls[c + 1].pre

\* C8: save_feedback whose update_one found no record for the messageId has
\* issued exactly one insert_one, of the payload as sent; when that insert
\* succeeds the caller gets success and the collection has grown by that
\* one record.
C8_MissingRecordInserted ==
  \A c \in CallIds :
    FbDone(c) /\ calls[c].update = "ok" /\ calls[c].matched_count = 0 =>
      /\ Len(calls[c].issued) = 1
      /\ \A k \in {"question", "answer", "userId", "messageId", "conversationId",
                   "feedback", "questionTimestamp", "answerTimestamp"} :
           calls[c].issued[1][k] = calls[c].data[k]
      /\ calls[c].insert = "ok" =>
           /\ calls[c].outcome = "ok" /\ FeedbackStatus(calls[c].outcome) = HTTP_200
           /\ calls[c].alone /\ Latest(c) => store = Append(calls[c].pre, calls[c].issued[1])

\* C8 witness: feedback arrived for a messageId without a record and its
\* fallback insert went through.
C8_Witness ==
  \E c \in CallIds :
    /\ FbDone(c) /\ calls[c].alone /\ Latest(c)
    /\ Count(calls[c].pre, calls[c].data.messageId) = 0
    /\ calls[c].insert = "ok"
    /\ Count(store, calls[c].data.messageId) = 1

\* a chat for a messageId without a record ran alone, answered and logged,
\* then feedback for the same messageId ran alone and returned
ChatThenFeedback(c) ==
  /\ c + 1 \in CallIds /\ Latest(c + 1)
  /\ ChatDone(c) /\ ProviderSucceeded(c) /\ calls[c].insert = "ok" /\ calls[c].alone
  /\ Count(calls[c].pre, calls[c].data.messageId) = 0
  /\ FbDone(c + 1) /\ calls[c + 1].outcome = "ok" /\ calls[c + 1].alone
  /\ calls[c + 1].data.messageId = calls[c].data.messageId

\* C9: after a chat for messageId m (answered and logged) followed by
\* feedback f for m, not overlapping, the collection holds exactly one
\* record with messageId m; it has feedback f and the answer the chat wrote.
C9_FeedbackLandsOnChatRecord ==
  \A c \in CallIds :
    ChatThenFeedback(c) =>
      LET m == calls[c].data.messageId IN
      /\ Count(store, m) = 1
      /\ \A i \in Matching(store, m) :
           /\ store[i].feedback = calls[c + 1].data.feedback
           /\ store[i].answer = calls[c].full_response

\* C9 witness: such a chat and feedback have both finished.
C9_Witness ==
  \E c \in CallIds :
    /\ ChatThenFeedback(c)
    /\ calls[c].response.output \in Outputs
    /\ \E i \in Matching(store, calls[c].data.messageId) : store[i].feedback \in Feedbacks

\* C10 (as claimed): the caller of save_feedback gets a failure only when the
\* update and the fallback insert both failed, and after a failed update the
\* fallback insert is still attempted.
C10_FailureOnlyIfBothFail ==
  \A c \in CallIds :
    FbDone(c) =>
      /\ FeedbackStatus(calls[c].outcome) = HTTP_500 =>
           calls[c].update = "failed" /\ calls[c].insert = "failed"
      /\ calls[c].update = "failed" => Len(calls[c].issued) = 1
\* a record written by process_message / by the fallback insert of
\* save_feedback (which has no userName and no logTimestamp)
ChatShaped(doc) == doc.userName # Absent
FeedbackOnly(doc) == doc.userName = Absent /\ doc.logTimestamp = NoTimestamp

\* chat c and feedback d for the same messageId, which had no record,
\* overlapped: d's update found nothing, then both inserts went through
RacedInserts(c, d) ==
  /\ ChatDone(c) /\ calls[c].insert = "ok"
  /\ FbDone(d) /\ calls[d].update = "ok" /\ calls[d].matched_count = 0
  /\ calls[d].insert = "ok"
  /\ calls[d].data.messageId = calls[c].data.messageId
  /\ Count(calls[c].pre, calls[c].data.messageId) = 0
  /\ Count(calls[d].pre, calls[d].data.messageId) = 0
  /\ \A e \in CallIds \ {c, d} : calls[e].data.messageId # calls[c].data.messageId

\* C11: when save_feedback's update finds no record for m and then both the
\* chat's insert and the fallback insert execute, the collection holds two
\* records with messageId m: the chat log entry with feedback None and a
\* feedback-only record.  (The interleaving exists: C11_Witness.)
C11_RaceLeavesTwoRecords ==
  \A c, d \in CallIds :
    RacedInserts(c, d) =>
      LET m == calls[c].data.messageId IN
      /\ Count(store, m) = 2
      /\ \E i, j \in Matching(store, m) :
           /\ ChatShaped(store[i]) /\ store[i].feedback = None
           /\ store[i].answer = calls[c].full_response
           /\ FeedbackOnly(store[j]) /\ store[j].feedback = calls[d].data.feedback

\* C11 witness: the two requests overlapped and the collection holds both
\* records.
C11_Witness ==
  \E c, d \in CallIds :
    /\ RacedInserts(c, d) /\ ~calls[c].alone /\ ~calls[d].alone
    /\ Count(store, calls[c].data.messageId) = 2
\* C12 (as claimed): the answer is emitted before the log insert is issued,
\* so a chat whose insert_one is outstanding has already yielded its answer.
C12_EmittedBeforeInsertIssued ==
  \A c \in CallIds :
    calls[c].op = "chat" /\ calls[c].issued # <<>> => Len(calls[c].emitted) >= 1

\* C13: insert_one is issued only once the provider call of that request
\* has returned its answer, and the entry carries that answer.
C13_InsertAfterProviderReturn ==
  \A c \in CallIds :
    calls[c].op = "chat" /\ calls[c].issued # <<>> =>
      /\ calls[c].response.kind = "json_object"
      /\ calls[c].pc \in {"insert", "done"}
      /\ calls[c].issued[1].answer = calls[c].full_response

\* C13 witness: a chat is waiting for its insert_one, the provider's answer
\* in hand.
C13_Witness ==
  \E c \in CallIds :
    /\ calls[c].op = "chat" /\ calls[c].pc = "insert"
    /\ calls[c].response.output \in Outputs
    /\ calls[c].issued[1].answer = calls[c].response.output

\* C14: a chat sends at most one request to the provider; a failed provider
\* call is not retried, the chat ends with a fallback answer.
C14_SingleProviderCall ==
  \A c \in CallIds :
    calls[c].op = "chat" =>
      /\ calls[c].queries <= 1
      /\ calls[c].pc = "done" => calls[c].queries = 1
      /\ calls[c].pc = "query" => calls[c].response.kind = "pending"
      /\ ProviderFailed(c) =>
           /\ calls[c].pc = "done"
           /\ calls[c].emitted \in {<<FALLBACK_HTTP>>, <<FALLBACK_TECH>>}

\* C14 witness: a chat whose provider call timed out has finished after one
\* request.
C14_Witness ==
  \E c \in CallIds :
    /\ ChatDone(c) /\ calls[c].response.kind = "transport"
    /\ calls[c].queries = 1 /\ calls[c].emitted = <<FALLBACK_HTTP>>
\* the step in which update_one of feedback call c is applied and returns
UpdateStep(c) ==
  calls[c].op = "feedback" /\ calls[c].pc = "update" /\ calls'[c].update = "ok"

\* the fields of a record that the $set of save_feedback does not name
FrameFields ==
  {"userId", "userName", "conversationId", "messageId", "question", "answer",
   "logTimestamp"}

\* C15: the update of save_feedback changes nothing but feedback,
\* questionTimestamp and answerTimestamp of a record, and changes no record
\* with another messageId.
C15_UpdateFrame ==
  [][\A c \in CallIds :
       UpdateStep(c) =>
         /\ Len(store') = Len(store)
         /\ \A i \in 1..Len(store) :
              /\ \A k \in FrameFields : store'[i][k] = store[i][k]
              /\ store[i].messageId # calls[c].data.messageId => store'[i] = store[i]]_vars

\* C15 witness: feedback has been written onto a chat log entry (whose
\* answer differs from the one in the payload) while a record with another
\* messageId is in the collection.
C15_Witness ==
  \E c \in CallIds :
    /\ FbDone(c) /\ calls[c].matched_count = 1 /\ calls[c].modified_count = 1
    /\ \E i, j \in 1..Len(store) :
         /\ store[i].messageId = calls[c].data.messageId
         /\ store[i].feedback = calls[c].data.feedback
         /\ ChatShaped(store[i]) /\ store[i].answer # calls[c].data.answer
         /\ store[j].messageId # calls[c].data.messageId

\* C16: no step removes a record: the collection never gets shorter and
\* every record in it stays, with the fields no operation writes.
C16_NoDeletion ==
  [][/\ Len(store') >= Len(store)
     /\ \A i \in 1..Len(store) :
          \A k \in FrameFields : store'[i][k] = store[i][k]]_vars

\* C16 witness: after a chat and a feedback for a messageId that already
\* had a record, the earlier record and the later ones are all there.
C16_Witness ==
  \E c \in CallIds :
    /\ Latest(c) /\ NoneActive /\ Len(calls) >= 2
    /\ Count(calls[c].pre, calls[c].data.messageId) >= 1
    /\ calls[c].op = "feedback" /\ calls[c].insert = "ok"
    /\ Len(store) >= 3

\* C19: the update of save_feedback changes at most one record, also when
\* several have the messageId; the others keep their feedback and the
\* number of records with the messageId stays what it was.
C19_SingleDocumentUpdate ==
  [][\A c \in CallIds :
       UpdateStep(c) =>
         /\ Len(store') = Len(store)
         /\ Cardinality({i \in 1..Len(store) : store'[i] # store[i]}) <= 1
         /\ Count(store', calls[c].data.messageId) = Count(store, calls[c].data.messageId)]_vars

\* C19 witness: of two records with the messageId, feedback has been
\* written onto one and the other still has feedback None.
C19_Witness ==
  \E c \in CallIds :
    /\ FbDone(c) /\ calls[c].matched_count = 1 /\ calls[c].modified_count = 1
    /\ \E i, j \in Matching(store, calls[c].data.messageId) :
         /\ i # j
         /\ store[i].feedback = calls[c].data.feedback
         /\ store[j].feedback = None
\* C17 (as claimed): every log entry process_message inserts has an
\* answerTimestamp no earlier than its questionTimestamp, whatever
\* questionTimestamp the request carries.
C17_AnswerNotBeforeQuestion ==
  \A c \in CallIds :
    calls[c].op = "chat" /\ calls[c].issued # <<>> =>
      calls[c].issued[1].answerTimestamp.t >= calls[c].issued[1].questionTimestamp.t

\* C17 (amended): the answerTimestamp of a log entry is no earlier than its
\* questionTimestamp whenever the questionTimestamp of the request is not
\* later than the server clock when the entry is built.
C17_AnswerNotBeforeHonestQuestion ==
  \A c \in CallIds :
    /\ calls[c].op = "chat" /\ calls[c].issued # <<>>
    /\ calls[c].data.questionTimestamp.t <= calls[c].issued[1].logTimestamp.t
    => /\ calls[c].issued[1].questionTimestamp = calls[c].data.questionTimestamp
       /\ calls[c].issued[1].answerTimestamp.t >= calls[c].issued[1].questionTimestamp.t

\* C17 witness: a log entry for a question stamped with the last clock
\* reading was built at that reading and inserted.
C17_Witness ==
  \E c \in CallIds :
    /\ ChatDone(c) /\ calls[c].insert = "ok"
    /\ calls[c].data.questionTimestamp.t = MaxClock
    /\ calls[c].issued[1].logTimestamp.t = MaxClock
    /\ calls[c].issued[1].answerTimestamp.t = MaxClock
\* no other save_feedback for the messageId of call c has run
OnlyFeedbackFor(c) ==
  \A e \in CallIds \ {c} :
    /\ calls[e].op # "forgotten"
    /\ ~(calls[e].op = "feedback" /\ calls[e].data.messageId = calls[c].data.messageId)

\* C18: once save_feedback has returned success for messageId m and feedback
\* f, with no other save_feedback for m around, the collection holds a
\* record with messageId m and feedback f.
C18_FeedbackStored ==
  \A c \in CallIds :
    FbDone(c) /\ calls[c].outcome = "ok" /\ OnlyFeedbackFor(c) =>
      \E i \in Matching(store, calls[c].data.messageId) :
        store[i].feedback = calls[c].data.feedback

\* C18 witness: feedback that overlapped a chat for the same messageId has
\* returned success, and a record carries it.
C18_Witness ==
  \E c, d \in CallIds :
    /\ FbDone(c) /\ calls[c].outcome = "ok" /\ OnlyFeedbackFor(c) /\ ~calls[c].alone
    /\ calls[d].op = "chat" /\ calls[d].data.messageId = calls[c].data.messageId
    /\ \E i \in Matching(store, calls[c].data.messageId) :
         store[i].feedback = calls[c].data.feedback

\* number of records with messageId m written by process_message
ChatCount(coll, m) ==
  Cardinality({i \in Matching(coll, m) : ChatShaped(coll[i])})

\* the chats for messageId m whose insert_one succeeds in this step
LoggedNow(m) ==
  {c \in CallIds : /\ calls[c].op = "chat" /\ calls[c].pc = "insert"
                   /\ calls'[c].insert = "ok" /\ calls[c].data.messageId = m}

\* C20: process_message only appends: a step of a chat leaves every record
\* of the collection as it was, and the number of chat records with
\* messageId m grows by one exactly when a chat for m has its insert
\* succeed, also when m is logged already.
C20_ChatOnlyAppends ==
  [][/\ \A m \in MsgIds :
          ChatCount(store', m) = ChatCount(store, m) + Cardinality(LoggedNow(m))
     /\ \A c \in CallIds :
          calls[c].op = "chat" /\ calls'[c] # calls[c] =>
            /\ Len(store') >= Len(store)
            /\ SubSeq(store', 1, Len(store)) = store]_vars

\* C20 witness: a chat resubmitted for a messageId that was logged already
\* has left a second chat record for it.
C20_Witness ==
  \E c \in CallIds :
    /\ ChatDone(c) /\ calls[c].insert = "ok" /\ Latest(c)
    /\ ChatCount(calls[c].pre, calls[c].data.messageId) = 1
    /\ ChatCount(store, calls[c].data.messageId) = 2
====
